---------------------------- MODULE Spec2Model ----------------------------
(***************************************************************************)
(* Model of the adaptive sampling engines of adaptive/learner.py and       *)
(* adaptive/learner/learner2D.py: AverageLearner, Learner1D,               *)
(* BalancingLearner and the Learner2D of learner2D.py.                     *)
(*                                                                         *)
(* Numbers.  A Python number is an exact rational [n |-> num, d |-> den]   *)
(* in lowest terms with d > 0; None, +inf and -inf are the three records   *)
(* with d = 0.  Floating-point rounding is not modelled.                   *)
(*                                                                         *)
(* Square roots.  Every value the code obtains through sqrt (an interval   *)
(* loss, a standard deviation, a standard error, a heap priority, the      *)
(* loss of AverageLearner) is non-negative up to a known sign and is       *)
(* represented by its SQUARE, which is rational.  Order and equality of    *)
(* non-negative reals are those of their squares, x / k becomes            *)
(* sq / k^2 and max stays max.                                             *)
(*                                                                         *)
(* Objects.  The learners are values (the contents of their __dict__),     *)
(* except where the identity of a dict matters: __getstate__ and           *)
(* __setstate__ are modelled on a heap of dicts, see BaseLearner.          *)
(*                                                                         *)
(* Exceptions.  An operation that raises leaves the state the code has     *)
(* built up to the raise, records ret.raised = TRUE, and the run ends      *)
(* there: no action is enabled after an uncaught exception.                *)
(***************************************************************************)
EXTENDS Integers, Sequences, FiniteSets, TLC

VARIABLES cls,   \* the class of the learner under test
          avg,   \* the AverageLearner instance (its __dict__)
          l1,    \* the Learner1D instance
          l2,    \* the Learner2D instance (learner2D.py)
          bal,   \* the BalancingLearner instance: its list of learners
          obj,   \* a learner as an object: the dicts allocated so far, the
                 \* one that is its __dict__ and the snapshots taken of it
          ret,   \* the last call: its name, arguments and result
          calls  \* how many calls have changed the learner so far

vars == <<cls, avg, l1, l2, bal, obj, ret, calls>>

---------------------------------------------------------------------------
(* Bounds of the exploration                                               *)

MaxChoose == 3        \* choose_points is called with n in 1..MaxChoose
MaxAvgIndex == 2      \* add_point of AverageLearner takes indices 0..MaxAvgIndex
MaxAvgCalls == 4      \* number of state-changing calls on an AverageLearner
MaxL1Calls == 3       \* number of add_point and remove_unfinished calls on a Learner1D
MaxL2Choose == 2      \* choose_points of Learner2D is called with n in 1..MaxL2Choose
MaxL2Calls == 3       \* number of calls on a Learner2D other than loss
MaxL2Points == 6      \* choose_points is called on a Learner2D of at most so many points
MaxLearners == 2      \* a BalancingLearner holds 1..MaxLearners learners
MaxBalChoose == 2     \* choose_points of BalancingLearner is called with n in 1..MaxBalChoose
MaxBalCalls == 2      \* number of state-changing calls on a BalancingLearner
MaxObjCalls == 3      \* number of add_point calls on a learner with snapshots
MaxSnapshots == 2     \* number of __getstate__ calls on a learner

---------------------------------------------------------------------------
(* Exact rationals                                                         *)

None == [n |-> 0, d |-> 0]
Inf == [n |-> 1, d |-> 0]
NegInf == [n |-> -1, d |-> 0]

IsNum(a) == a.d # 0

Abs(i) == IF i < 0 THEN -i ELSE i

RECURSIVE GCD(_, _)
GCD(a, b) == IF b = 0 THEN a ELSE GCD(b, a % b)

Rat(num, den) ==
    LET s == IF den < 0 THEN -1 ELSE 1
        g == GCD(Abs(num), Abs(den))
    IN  [n |-> (s * num) \div g, d |-> (s * den) \div g]

R(i) == [n |-> i, d |-> 1]

RAdd(a, b) == Rat(a.n * b.d + b.n * a.d, a.d * b.d)
RSub(a, b) == Rat(a.n * b.d - b.n * a.d, a.d * b.d)
RMul(a, b) == Rat(a.n * b.n, a.d * b.d)
RDiv(a, b) == Rat(a.n * b.d, a.d * b.n)
RSq(a) == RMul(a, a)
RLt(a, b) == a.n * b.d < b.n * a.d
RLe(a, b) == a.n * b.d <= b.n * a.d
RMin(a, b) == IF RLt(b, a) THEN b ELSE a
RMax(a, b) == IF RLt(a, b) THEN b ELSE a

(* Order on the extended rationals (finite numbers, +inf, -inf).           *)
XLt(a, b) ==
    IF IsNum(a) /\ IsNum(b) THEN RLt(a, b)
    ELSE IF a = b THEN FALSE
    ELSE a = NegInf \/ b = Inf

Range(s) == {s[i] : i \in DOMAIN s}

(* The function f with key k bound to v (dict assignment f[k] = v).        *)
Put(f, k, v) == [j \in DOMAIN f \cup {k} |-> IF j = k THEN v ELSE f[j]]

(* The function f without key k (del f[k], dict.pop(k, None)).             *)
Del(f, k) == [j \in DOMAIN f \ {k} |-> f[j]]

EmptyMap == [j \in {} |-> None]

---------------------------------------------------------------------------
(* The record of the last call                                             *)

NoRet ==
    [op |-> "init", n |-> 0, add_data |-> FALSE, real |-> FALSE,
     x |-> None, y |-> None, points |-> <<>>, loss_improvements |-> <<>>,
     quals |-> <<>>, value |-> None, raised |-> FALSE]

Running == ~ret.raised

---------------------------------------------------------------------------
(* AverageLearner                                                          *)

(* The tolerances an AverageLearner is constructed with: left unset        *)
(* (None), np.inf, or a finite number.                                     *)
AvgTolerances == {None, Inf, Rat(1, 10)}

(* The values the learned function returns.                                *)
AvgValues == {R(-1), R(0), R(1)}

(* __init__ raises Exception when both tolerances are None.                *)
Avg_init_raises(atol, rtol) == atol = None /\ rtol = None

(* The instance __init__ builds when it does not raise: a tolerance left   *)
(* at None becomes np.inf.                                                 *)
Avg_init(atol, rtol) ==
    [data |-> EmptyMap,
     atol |-> IF atol = None THEN Inf ELSE atol,
     rtol |-> IF rtol = None THEN Inf ELSE rtol,
     n |-> 0, n_requested |-> 0, sum_f |-> R(0), sum_f_sq |-> R(0)]

(* Avg_add_point with sum_f_sq += value in place of value**2.               *)
Avg_add_point_unsquared(s, n, value) ==
    LET s1 == [s EXCEPT !.data = Put(s.data, n, value)]
    IN  IF value = None
        THEN [s1 EXCEPT !.n_requested = s.n_requested + 1]
        ELSE [s1 EXCEPT !.n = s.n + 1,
                        !.sum_f = RAdd(s.sum_f, value),
                        !.sum_f_sq = RAdd(s.sum_f_sq, value)]

Avg_add_point(s, n, value) ==
    LET s1 == [s EXCEPT !.data = Put(s.data, n, value)]
    IN  IF value = None
        THEN [s1 EXCEPT !.n_requested = s.n_requested + 1]
        ELSE [s1 EXCEPT !.n = s.n + 1,
                        !.sum_f = RAdd(s.sum_f, value),
                        !.sum_f_sq = RAdd(s.sum_f_sq, RSq(value))]

(* BaseLearner.add_data(points, itertools.repeat(None)) on a list of       *)
(* points: add_point(x, None) for each, in order.                          *)
RECURSIVE Avg_add_data(_, _)
Avg_add_data(s, xs) ==
    IF xs = <<>> THEN s
    ELSE Avg_add_data(Avg_add_point(s, Head(xs), None), Tail(xs))

Avg_choose_points(s, n, add_data) ==
    LET points == [i \in 1..n |-> s.n_requested + i - 1]
        loss_improvements == [i \in 1..n |-> None]
    IN  [state |-> IF add_data THEN Avg_add_data(s, points) ELSE s,
         points |-> points,
         loss_improvements |-> loss_improvements,
         raised |-> FALSE]

(* mean; only evaluated with s.n > 0.                                      *)
Avg_mean(s) == RDiv(s.sum_f, R(s.n))

(* The square of std (the sample variance), +inf with fewer than 2 values. *)
Avg_std(s) ==
    IF s.n < 2 THEN Inf
    ELSE RDiv(RSub(s.sum_f_sq, RMul(R(s.n), RSq(Avg_mean(s)))), R(s.n - 1))

(* x / tol for a tolerance that may be +inf, on squares.                   *)
OverTol(sq, tol) == IF tol = Inf THEN R(0) ELSE RDiv(sq, RSq(tol))

(* loss(real): [kind |-> "inf"], [kind |-> "raise"] for the                *)
(* ZeroDivisionError of a division by sqrt(0) or by abs(mean) = 0, or      *)
(* [kind |-> "num", sq |-> the square of the returned number].             *)
Avg_loss(s, real) ==
    IF s.n < 2 THEN [kind |-> "inf", sq |-> Inf]
    ELSE LET m == IF real THEN s.n ELSE s.n_requested
         IN  IF m = 0 THEN [kind |-> "raise", sq |-> None]
             ELSE LET standard_error == RDiv(Avg_std(s), R(m))
                  IN  IF Avg_mean(s) = R(0) THEN [kind |-> "raise", sq |-> None]
                      ELSE [kind |-> "num",
                            sq |-> RMax(OverTol(standard_error, s.atol),
                                        OverTol(RDiv(standard_error,
                                                     RSq(Avg_mean(s))),
                                                s.rtol))]

(* remove_unfinished is `pass`.                                            *)
Avg_remove_unfinished(s) == s

(* Number of state-changing calls made so far on the AverageLearner.       *)
AvgCalls == avg.n + avg.n_requested

AvgChoosePoints ==
    /\ cls = "avg" /\ Running
    /\ \E n \in 1..MaxChoose, add_data \in BOOLEAN :
         /\ add_data => AvgCalls + n <= MaxAvgCalls
         /\ LET r == Avg_choose_points(avg, n, add_data)
            IN  /\ avg' = r.state
                /\ ret' = [NoRet EXCEPT !.op = "choose_points", !.n = n,
                             !.add_data = add_data, !.points = r.points,
                             !.loss_improvements = r.loss_improvements]
    /\ UNCHANGED <<cls, obj, l1, l2, bal, calls>>

AvgAddPoint ==
    /\ cls = "avg" /\ Running
    /\ AvgCalls < MaxAvgCalls
    /\ \E i \in 0..MaxAvgIndex, value \in AvgValues \cup {None} :
         /\ avg' = Avg_add_point(avg, i, value)
         /\ ret' = [NoRet EXCEPT !.op = "add_point", !.x = R(i), !.y = value]
    /\ UNCHANGED <<cls, obj, l1, l2, bal, calls>>

AvgRemoveUnfinished ==
    /\ cls = "avg" /\ Running
    /\ avg' = Avg_remove_unfinished(avg)
    /\ ret' = [NoRet EXCEPT !.op = "remove_unfinished"]
    /\ UNCHANGED <<cls, obj, l1, l2, bal, calls>>

NextAvg == AvgChoosePoints \/ AvgAddPoint \/ AvgRemoveUnfinished

---------------------------------------------------------------------------
(* Learner1D                                                               *)

(* bounds, and the x and y values the exploration feeds to add_point.      *)
L1Bounds == <<R(0), R(1)>>
L1Xs == {R(0), R(1), R(2)}
L1Ys == {R(0), R(1)}

(* The local function `points` of choose_points, which line 365 passes to  *)
(* add_data in place of the list xs.                                       *)
PointsFunction == [function |-> "points"]

(* Insertion-ordered dict (losses, losses_combined): a sequence of         *)
(* [k |-> key, v |-> value] with distinct keys.                            *)
OKeys(d) == {d[i].k : i \in DOMAIN d}
OGet(d, k) == (CHOOSE e \in Range(d) : e.k = k).v
OSet(d, k, v) ==
    IF k \in OKeys(d)
    THEN [i \in DOMAIN d |-> IF d[i].k = k THEN [k |-> k, v |-> v] ELSE d[i]]
    ELSE Append(d, [k |-> k, v |-> v])
ODel(d, k) == SelectSeq(d, LAMBDA e : e.k # k)

(* The least and the greatest element of a non-empty set of numbers.       *)
MinOf(S) == CHOOSE a \in S : \A b \in S : RLe(a, b)
MaxOf(S) == CHOOSE a \in S : \A b \in S : RLe(b, a)

L1_init(bounds) ==
    [data |-> EmptyMap, data_interp |-> EmptyMap,
     losses |-> <<>>, losses_combined |-> <<>>,
     neighbors |-> EmptyMap, neighbors_combined |-> EmptyMap,
     bbox |-> <<bounds, <<Inf, NegInf>> >>,
     scale |-> <<RSub(bounds[2], bounds[1]), R(0)>>,
     oldscale |-> <<RSub(bounds[2], bounds[1]), R(0)>>,
     bounds |-> bounds]

(* data_combined: {**data, **data_interp}.                                 *)
L1_data_combined(s) ==
    [x \in DOMAIN s.data \cup DOMAIN s.data_interp |->
        IF x \in DOMAIN s.data_interp THEN s.data_interp[x] ELSE s.data[x]]

(* a / b for finite a and b finite or -inf (a / -inf is 0).                *)
XDiv(a, b) == IF IsNum(b) THEN RDiv(a, b) ELSE R(0)

(* interval_loss, as the square of the value returned.                     *)
L1_interval_loss(s, x_left, x_right, data) ==
    LET y_right == data[x_right]
        y_left == data[x_left]
        dx == RSq(RDiv(RSub(x_right, x_left), s.scale[1]))
    IN  IF s.scale[2] = R(0) THEN dx
        ELSE RAdd(dx, RSq(XDiv(RSub(y_right, y_left), s.scale[2])))

(* max(losses.values()), on squares.                                       *)
L1_loss(s, real) ==
    LET losses == IF real THEN s.losses ELSE s.losses_combined
    IN  IF Len(losses) = 0 THEN Inf
        ELSE MaxOf({losses[i].v : i \in DOMAIN losses})

(* update_losses without the `del losses[x_lower, x_upper]` of line 245.    *)
L1_update_losses_keep_split(s, x, data, neighbors, losses) ==
    LET x_lower == neighbors[x][1]
        x_upper == neighbors[x][2]
        a == IF x_lower # None
             THEN OSet(losses, <<x_lower, x>>, L1_interval_loss(s, x_lower, x, data))
             ELSE losses
    IN  IF x_upper # None
        THEN OSet(a, <<x, x_upper>>, L1_interval_loss(s, x, x_upper, data))
        ELSE a

L1_update_losses(s, x, data, neighbors, losses) ==
    LET x_lower == neighbors[x][1]
        x_upper == neighbors[x][2]
        a == IF x_lower # None
             THEN OSet(losses, <<x_lower, x>>, L1_interval_loss(s, x_lower, x, data))
             ELSE losses
        b == IF x_upper # None
             THEN OSet(a, <<x, x_upper>>, L1_interval_loss(s, x, x_upper, data))
             ELSE a
    IN  ODel(b, <<x_lower, x_upper>>)

(* find_neighbors for an x that is not a key of neighbors.                 *)
L1_find_neighbors(x, neighbors) ==
    LET below == {k \in DOMAIN neighbors : RLt(k, x)}
        above == {k \in DOMAIN neighbors : ~RLt(k, x)}
    IN  <<IF below = {} THEN None ELSE MaxOf(below),
          IF above = {} THEN None ELSE MinOf(above)>>

(* update_neighbors without lines 259-260: the new key gets its            *)
(* neighbors, the neighbors are not told of the new key.                   *)
L1_update_neighbors_unlinked(x, neighbors) ==
    IF x \in DOMAIN neighbors THEN neighbors
    ELSE Put(neighbors, x, L1_find_neighbors(x, neighbors))

L1_update_neighbors(x, neighbors) ==
    IF x \in DOMAIN neighbors THEN neighbors
    ELSE LET nb == L1_find_neighbors(x, neighbors)
         IN  [k \in DOMAIN neighbors \cup {x} |->
                IF k = x THEN nb
                ELSE IF k = nb[1] THEN <<neighbors[k][1], x>>
                ELSE IF k = nb[2] THEN <<x, neighbors[k][2]>>
                ELSE neighbors[k]]

(* min and max against a bounding-box entry that may still be +-inf.       *)
XMin(a, b) == IF XLt(b, a) THEN b ELSE a
XMax(a, b) == IF XLt(a, b) THEN b ELSE a

(* b - a for the y extent of the bounding box: -inf - inf is -inf.         *)
XSub(b, a) == IF IsNum(a) /\ IsNum(b) THEN RSub(b, a) ELSE NegInf

L1_update_scale(s, x, y) ==
    LET bx == <<XMin(s.bbox[1][1], x), XMax(s.bbox[1][2], x)>>
        by == IF y # None
              THEN <<XMin(s.bbox[2][1], y), XMax(s.bbox[2][2], y)>>
              ELSE s.bbox[2]
    IN  [s EXCEPT !.bbox = <<bx, by>>,
                  !.scale = <<RSub(bx[2], bx[1]), XSub(by[2], by[1])>>]

(* numpy.interp(x, xp, fp) for the sorted keys xp of the non-empty real    *)
(* data: linear between the two keys around x, constant outside them.      *)
NpInterp(x, data) ==
    LET xp == DOMAIN data
        lo == {k \in xp : RLe(k, x)}
        hi == {k \in xp : RLt(x, k)}
    IN  IF lo = {} THEN data[MinOf(xp)]
        ELSE IF hi = {} THEN data[MaxOf(xp)]
        ELSE LET a == MaxOf(lo)
                 b == MinOf(hi)
             IN  RAdd(data[a],
                      RMul(RSub(x, a),
                           RDiv(RSub(data[b], data[a]), RSub(b, a))))

(* interpolate(): the new data_interp.                                     *)
L1_interpolate(s) ==
    [x \in DOMAIN s.data_interp |->
        IF DOMAIN s.data = {} THEN R(0) ELSE NpInterp(x, s.data)]


(* Lexicographic a > b on Python lists of numbers.                         *)
RECURSIVE ListGt(_, _)
ListGt(a, b) ==
    IF a = <<>> THEN FALSE
    ELSE IF b = <<>> THEN TRUE
    ELSE IF Head(a) # Head(b) THEN XLt(Head(b), Head(a))
    ELSE ListGt(Tail(a), Tail(b))

(* `self._scale > self._oldscale * 2`: both are lists, so `* 2` repeats    *)
(* the list and `>` compares lexicographically.                            *)
L1_scale_doubled(s) == ListGt(s.scale, s.oldscale \o s.oldscale)

(* The recompute of every loss in both maps, lines 308-312.                *)
L1_recompute(s) ==
    [s EXCEPT
       !.losses = [i \in DOMAIN s.losses |->
                     [k |-> s.losses[i].k,
                      v |-> L1_interval_loss(s, s.losses[i].k[1],
                                             s.losses[i].k[2], s.data)]],
       !.losses_combined = [i \in DOMAIN s.losses_combined |->
                     [k |-> s.losses_combined[i].k,
                      v |-> L1_interval_loss(s, s.losses_combined[i].k[1],
                                             s.losses_combined[i].k[2],
                                             L1_data_combined(s))]],
       !.oldscale = s.scale]

L1_add_point(s, x, y) ==
    LET real == y # None
        s1 == IF real
              THEN [s EXCEPT !.data = Put(s.data, x, y),
                             !.data_interp = Del(s.data_interp, x)]
              ELSE [s EXCEPT !.data_interp = Put(s.data_interp, x, None)]
        s2 == [s1 EXCEPT
                 !.neighbors_combined = L1_update_neighbors(x, s1.neighbors_combined),
                 !.neighbors = IF real THEN L1_update_neighbors(x, s1.neighbors)
                               ELSE s1.neighbors]
        s3 == L1_update_scale(s2, x, y)
        s4 == IF real THEN s3
              ELSE [s3 EXCEPT !.data_interp = L1_interpolate(s3)]
        s5 == [s4 EXCEPT
                 !.losses_combined =
                     L1_update_losses(s4, x, L1_data_combined(s4),
                                      s4.neighbors_combined, s4.losses_combined),
                 !.losses = IF real
                            THEN L1_update_losses(s4, x, s4.data, s4.neighbors,
                                                  s4.losses)
                            ELSE s4.losses]
    IN  IF real /\ L1_scale_doubled(s5) THEN L1_recompute(s5) ELSE s5

(* The iterator itertools.repeat(None), which add_data passes on as y.     *)
RepeatNone == [iterator |-> "repeat(None)"]

(* add_data(points, itertools.repeat(None)) of line 365, where `points`    *)
(* is the local function: zip raises TypeError and add_data falls back to  *)
(* add_point(points, repeat(None)).  y is not None, so line 278 stores     *)
(* the function as a key of the SortedDict data: with real data present    *)
(* the sorted insertion compares it with the keys and raises TypeError     *)
(* before anything is stored; with no real data the key is stored and      *)
(* find_neighbors raises TypeError at line 250, where bisect_left          *)
(* compares it with the keys of neighbors_combined (both bounds are in     *)
(* it, so it is not empty).                                                *)
L1_add_data_points_function(s) ==
    [state |-> IF DOMAIN s.data # {} THEN s
               ELSE [s EXCEPT !.data = Put(s.data, PointsFunction, RepeatNone)],
     raised |-> TRUE]

(* heapq on the list quals of (quality, x_range, n) tuples, positions      *)
(* counted from 0 as in heapq.  quality is -loss / n and is held as its    *)
(* square q, so a smaller quality is a larger q.                           *)
PairLt(a, b) ==
    IF a[1] # b[1] THEN RLt(a[1], b[1]) ELSE RLt(a[2], b[2])

TupleLt(a, b) ==
    IF a.q # b.q THEN RLt(b.q, a.q)
    ELSE IF a.x # b.x THEN PairLt(a.x, b.x)
    ELSE a.n < b.n

At(h, pos) == h[pos + 1]
SetAt(h, pos, e) == [h EXCEPT ![pos + 1] = e]

RECURSIVE Siftdown(_, _, _, _)
Siftdown(h, startpos, pos, newitem) ==
    IF pos > startpos /\ TupleLt(newitem, At(h, (pos - 1) \div 2))
    THEN Siftdown(SetAt(h, pos, At(h, (pos - 1) \div 2)), startpos,
                  (pos - 1) \div 2, newitem)
    ELSE SetAt(h, pos, newitem)

RECURSIVE SiftupLoop(_, _, _, _)
SiftupLoop(h, startpos, pos, newitem) ==
    LET childpos == 2 * pos + 1
        rightpos == childpos + 1
        c == IF rightpos < Len(h) /\ ~TupleLt(At(h, childpos), At(h, rightpos))
             THEN rightpos ELSE childpos
    IN  IF childpos < Len(h)
        THEN SiftupLoop(SetAt(h, pos, At(h, c)), startpos, c, newitem)
        ELSE Siftdown(h, startpos, pos, newitem)

Siftup(h, pos) == SiftupLoop(h, pos, pos, At(h, pos))

RECURSIVE HeapifyFrom(_, _)
HeapifyFrom(h, i) == IF i < 0 THEN h ELSE HeapifyFrom(Siftup(h, i), i - 1)

Heapify(h) == HeapifyFrom(h, (Len(h) \div 2) - 1)

Heapreplace(h, item) == Siftup(SetAt(h, 0, item), 0)

(* The loop body with the priority of the split interval left as it was.  *)
L1_split_worst_stale(quals) ==
    LET top == At(quals, 0)
    IN  Heapreplace(quals, [q |-> top.q, x |-> top.x, n |-> top.n + 1])

(* One iteration of the loop of lines 353-355.                             *)
L1_split_worst(quals) ==
    LET top == At(quals, 0)
    IN  Heapreplace(quals,
            [q |-> RMul(top.q, RSq(Rat(top.n, top.n + 1))),
             x |-> top.x, n |-> top.n + 1])

RECURSIVE L1_distribute(_, _)
L1_distribute(quals, n) ==
    IF n = 0 THEN quals ELSE L1_distribute(L1_split_worst(quals), n - 1)

(* The local function points(x, n).                                        *)
L1_points(x, n) ==
    IF n = 1 THEN <<>>
    ELSE LET step == RDiv(RSub(x[2], x[1]), R(n))
         IN  [i \in 1..(n - 1) |-> RAdd(x[1], RMul(step, R(i)))]

RECURSIVE Chain(_)
Chain(ss) == IF ss = <<>> THEN <<>> ELSE Head(ss) \o Chain(Tail(ss))

(* numpy.linspace(b0, b1, n) for n > 1.                                    *)
Linspace(b, n) ==
    [i \in 1..n |-> RAdd(b[1], RMul(R(i - 1), RDiv(RSub(b[2], b[1]), R(n - 1))))]

(* The bound test looking at the real data only.                           *)
L1_missing_bounds_data_only(s) ==
    SelectSeq(s.bounds, LAMBDA b : b \notin DOMAIN s.data)

(* The bounds that are neither in data nor in data_interp, in order.       *)
L1_missing_bounds(s) ==
    SelectSeq(s.bounds,
              LAMBDA b : b \notin DOMAIN s.data /\ b \notin DOMAIN s.data_interp)

(* The loss-improvements built at lines 360-362: -quality repeated n       *)
(* times for each (quality, x, n) of quals.                                *)
L1_loss_improvements(quals) ==
    Chain([i \in DOMAIN quals |-> [j \in 1..quals[i].n |-> quals[i].q]])

(* Lines 364-365 with the flag ignored: the points are always committed.   *)
L1_commit_always(s, add_data) == L1_add_data_points_function(s)

(* Lines 364-365: `if add_data: self.add_data(points, ...)`.               *)
L1_commit(s, add_data) ==
    IF add_data THEN L1_add_data_points_function(s)
    ELSE [state |-> s, raised |-> FALSE]

(* choose_points(n, add_data) for n >= 1.  An empty losses_combined makes  *)
(* quals[0] raise IndexError at line 354.                                  *)
L1_choose_points(s, n, add_data) ==
    LET xs0 == L1_missing_bounds(s)
        quals0 == Heapify([i \in DOMAIN s.losses_combined |->
                             [q |-> s.losses_combined[i].v,
                              x |-> s.losses_combined[i].k, n |-> 1]])
        quals == L1_distribute(quals0, n)
        xs == Chain([i \in DOMAIN quals |-> L1_points(quals[i].x, quals[i].n)])
        c == L1_commit(s, add_data)
    IN  IF xs0 # <<>>
        THEN [state |-> s,
              points |-> IF n <= 2
                         THEN SubSeq(xs0, 1, IF n < Len(xs0) THEN n ELSE Len(xs0))
                         ELSE Linspace(s.bounds, n),
              loss_improvements |-> [i \in 1..n |-> Inf],
              quals |-> <<>>, raised |-> FALSE]
        ELSE IF quals0 = <<>>
        THEN [state |-> s, points |-> <<>>, loss_improvements |-> <<>>,
              quals |-> <<>>, raised |-> TRUE]
        ELSE IF c.raised
        THEN [state |-> c.state, points |-> <<>>, loss_improvements |-> <<>>,
              quals |-> quals, raised |-> TRUE]
        ELSE [state |-> c.state, points |-> xs,
              loss_improvements |-> L1_loss_improvements(quals),
              quals |-> quals, raised |-> FALSE]

L1_remove_unfinished(s) ==
    [s EXCEPT !.data_interp = EmptyMap,
              !.losses_combined = s.losses,
              !.neighbors_combined = s.neighbors]

(* All points the learner holds, real or pending.                          *)
L1Keys(s) == DOMAIN s.data \cup DOMAIN s.data_interp

L1ChoosePoints ==
    /\ cls = "l1d" /\ Running
    /\ \E n \in 1..MaxChoose, add_data \in BOOLEAN :
         LET r == L1_choose_points(l1, n, add_data)
         IN  /\ l1' = r.state
             /\ ret' = [NoRet EXCEPT !.op = "choose_points", !.n = n,
                          !.add_data = add_data, !.points = r.points,
                          !.loss_improvements = r.loss_improvements,
                          !.quals = r.quals, !.raised = r.raised]
    /\ UNCHANGED <<cls, obj, avg, l2, bal, calls>>

(* add_point with an x and a y (or None) of the caller's choice.           *)
L1AddPoint ==
    /\ cls = "l1d" /\ Running
    /\ calls < MaxL1Calls /\ calls' = calls + 1
    /\ \E x \in L1Xs, y \in L1Ys \cup {None} :
         /\ l1' = L1_add_point(l1, x, y)
         /\ ret' = [NoRet EXCEPT !.op = "add_point", !.x = x, !.y = y]
    /\ UNCHANGED <<cls, obj, avg, l2, bal>>

(* The runner: add_point with the computed value of a point the last       *)
(* choose_points returned.                                                 *)
L1AddChosen ==
    /\ cls = "l1d" /\ Running
    /\ ret.op = "choose_points"
    /\ calls < MaxL1Calls /\ calls' = calls + 1
    /\ \E i \in DOMAIN ret.points, y \in L1Ys :
         /\ l1' = L1_add_point(l1, ret.points[i], y)
         /\ ret' = [NoRet EXCEPT !.op = "add_point", !.x = ret.points[i], !.y = y]
    /\ UNCHANGED <<cls, obj, avg, l2, bal>>

L1RemoveUnfinished ==
    /\ cls = "l1d" /\ Running
    /\ calls < MaxL1Calls /\ calls' = calls + 1
    /\ l1' = L1_remove_unfinished(l1)
    /\ ret' = [NoRet EXCEPT !.op = "remove_unfinished"]
    /\ UNCHANGED <<cls, obj, avg, l2, bal>>

NextL1D ==
    L1ChoosePoints \/ L1AddPoint \/ L1AddChosen \/ L1RemoveUnfinished

---------------------------------------------------------------------------
(* Plane geometry for Learner2D                                            *)

(* Points are pairs <<x, y>> of rationals.                                 *)

(* np.cross(b - a, c - a): twice the signed area of the triangle a, b, c.  *)
Cross(a, b, c) ==
    RSub(RMul(RSub(b[1], a[1]), RSub(c[2], a[2])),
         RMul(RSub(b[2], a[2]), RSub(c[1], a[1])))

(* The square of the distance between a and b.                             *)
NormSq(a, b) == RAdd(RSq(RSub(a[1], b[1])), RSq(RSub(a[2], b[2])))

(* The triangulation works on integer coordinates: the points P brought   *)
(* to their common denominator.                                            *)
RECURSIVE CommonDenominator(_)
CommonDenominator(D) ==
    IF D = {} THEN 1
    ELSE LET d == CHOOSE d \in D : TRUE
             m == CommonDenominator(D \ {d})
         IN  (d * m) \div GCD(d, m)

(* Twice the signed area of the triangle a, b, c of integer points.        *)
GridCross(a, b, c) ==
    (b[1] - a[1]) * (c[2] - a[2]) - (b[2] - a[2]) * (c[1] - a[1])

(* d lies strictly inside the circle through the counterclockwise          *)
(* triangle a, b, c.                                                       *)
InCircle(a, b, c, d) ==
    LET ax == a[1] - d[1]  ay == a[2] - d[2]
        bx == b[1] - d[1]  by == b[2] - d[2]
        cx == c[1] - d[1]  cy == c[2] - d[2]
    IN  (ax * ax + ay * ay) * (bx * cy - cx * by)
        - (bx * bx + by * by) * (ax * cy - cx * ay)
        + (cx * cx + cy * cy) * (ax * by - bx * ay) > 0

(* The order the triangulation library is taken to list points in:         *)
(* lexicographic, ascending for qhull = "min", descending for "max".       *)
PointBefore(p, q, qhull) ==
    IF qhull = "min" THEN p[1] < q[1] \/ (p[1] = q[1] /\ p[2] < q[2])
    ELSE q[1] < p[1] \/ (p[1] = q[1] /\ q[2] < p[2])

(* The triangles the Delaunay criterion admits on the points P: the        *)
(* non-degenerate ones whose circumcircle has no point of P strictly       *)
(* inside.  Each is a simplex of scipy.spatial.Delaunay: counterclockwise, *)
(* as the library documents for two dimensions, and listed from its first  *)
(* vertex.                                                                 *)
DelaunayCandidates(P, qhull) ==
    LET ccw == UNION {UNION {{IF GridCross(a, b, c) > 0 THEN <<a, b, c>>
                                                        ELSE <<a, c, b>> :
                                 c \in {c \in P : PointBefore(b, c, qhull)
                                                  /\ GridCross(a, b, c) # 0}} :
                             b \in {b \in P : PointBefore(a, b, qhull)}} :
                      a \in P}
    IN  {t \in ccw :
            \A d \in P \ {t[1], t[2], t[3]} : ~InCircle(t[1], t[2], t[3], d)}

(* Some edge of the counterclockwise triangle s has t on its outer side.   *)
EdgeSeparates(s, t) ==
    \E i \in 1..3 :
        \A j \in 1..3 : GridCross(s[i], s[(i % 3) + 1], t[j]) <= 0

(* The interiors of the triangles s and t intersect.                       *)
Overlap(s, t) == ~(EdgeSeparates(s, t) \/ EdgeSeparates(t, s))

(* The order in which simplices are listed: by first vertex, then second,  *)
(* then third.                                                             *)
SimplexBefore(s, t, qhull) ==
    \/ PointBefore(s[1], t[1], qhull)
    \/ s[1] = t[1] /\ PointBefore(s[2], t[2], qhull)
    \/ s[1] = t[1] /\ s[2] = t[2] /\ PointBefore(s[3], t[3], qhull)

RECURSIVE DelaunayPick(_, _, _)
DelaunayPick(C, chosen, qhull) ==
    IF C = {} THEN chosen
    ELSE LET t == CHOOSE t \in C : \A u \in C \ {t} : SimplexBefore(t, u, qhull)
         IN  DelaunayPick({u \in C \ {t} : ~Overlap(t, u)},
                          Append(chosen, t), qhull)

(* scipy.spatial.Delaunay on the points P: a sequence of simplices, empty  *)
(* where the library raises QhullError (fewer than three points, or all    *)
(* points on one line).  Where four or more points lie on one circle the   *)
(* library is free in how it cuts their polygon; the cut and the order of  *)
(* the simplices are taken to be a function of the point set, fixed by     *)
(* the parameter qhull, which a run chooses once.                          *)
Delaunay(P, qhull) ==
    LET m == CommonDenominator({p[1].d : p \in P} \cup {p[2].d : p \in P})
        grid == {<<p[1].n * (m \div p[1].d), p[2].n * (m \div p[2].d)>> : p \in P}
        tri == DelaunayPick(DelaunayCandidates(grid, qhull), <<>>, qhull)
    IN  [j \in DOMAIN tri |-> [i \in 1..3 |-> <<Rat(tri[j][i][1], m),
                                                Rat(tri[j][i][2], m)>>]]

(* areas(ip): the area of every simplex of the triangulation.              *)
areas(ip) ==
    [j \in DOMAIN ip.tri |->
        LET t == ip.tri[j]
            q == Cross(t[3], t[1], t[2])
        IN  RMul(Rat(1, 2), IF RLt(q, R(0)) THEN RSub(R(0), q) ELSE q)]

(* choose_point_in_triangle: the middle of the longest edge when           *)
(* (longest edge)^2 / area * sqrt(3) / 4 > max_badness, else the centre.   *)
(* With a positive area the test is 3 * edge^4 > (4 * max_badness * area)^2. *)
choose_point_in_triangle(triangle, max_badness) ==
    LET area == RMul(Rat(1, 2), Cross(triangle[1], triangle[2], triangle[3]))
        triangle_roll == <<triangle[3], triangle[1], triangle[2]>>
        edge_sq == [j \in 1..3 |-> NormSq(triangle[j], triangle_roll[j])]
        i == CHOOSE j \in 1..3 :
                /\ \A m \in 1..3 : RLe(edge_sq[m], edge_sq[j])
                /\ \A m \in 1..(j - 1) : RLt(edge_sq[m], edge_sq[j])
        bad == /\ RLt(R(0), area)
               /\ RLt(RSq(RMul(R(4 * max_badness), area)),
                      RMul(R(3), RSq(edge_sq[i])))
    IN  IF bad
        THEN <<RDiv(RAdd(triangle_roll[i][1], triangle[i][1]), R(2)),
               RDiv(RAdd(triangle_roll[i][2], triangle[i][2]), R(2))>>
        ELSE <<RDiv(RAdd(RAdd(triangle[1][1], triangle[2][1]), triangle[3][1]), R(3)),
               RDiv(RAdd(RAdd(triangle[1][2], triangle[2][2]), triangle[3][2]), R(3))>>

---------------------------------------------------------------------------
(* Learner2D (learner2D.py), constructed with loss_per_triangle=areas      *)

(* The bounds a Learner2D is constructed with.                             *)
L2Bounds == <<<<R(0), R(2)>>, <<R(0), R(1)>>>>

(* The value the learned function returns.                                 *)
L2Ys == {R(1)}

(* The value numpy gives a point outside the triangulation.                *)
NaN == [n |-> 0, d |-> -1]

stack_size == 10

L2_init(bounds, qhull) ==
    LET _bounds_points == <<<<bounds[1][1], bounds[2][1]>>,
                            <<bounds[1][1], bounds[2][2]>>,
                            <<bounds[1][2], bounds[2][1]>>,
                            <<bounds[1][2], bounds[2][2]>>>>
    IN  [ndim |-> Len(bounds), bounds |-> bounds, data |-> EmptyMap,
         _stack |-> [i \in 1..4 |-> [k |-> _bounds_points[i], v |-> Inf]],
         _interp |-> {}, _bounds_points |-> _bounds_points,
         _ip |-> None, _ip_combined |-> None,
         stack_size |-> stack_size, qhull |-> qhull]

(* scale(points) and unscale(points) of __init__, for one point.           *)
L2_scale(s, p) ==
    [i \in 1..2 |->
        LET xy_mean == RDiv(RAdd(s.bounds[i][1], s.bounds[i][2]), R(2))
            xy_scale == RSub(s.bounds[i][2], s.bounds[i][1])
        IN  RDiv(RSub(p[i], xy_mean), xy_scale)]

L2_unscale(s, p) ==
    [i \in 1..2 |->
        LET xy_mean == RDiv(RAdd(s.bounds[i][1], s.bounds[i][2]), R(2))
            xy_scale == RSub(s.bounds[i][2], s.bounds[i][1])
        IN  RAdd(RMul(p[i], xy_scale), xy_mean)]

L2_bounds_are_done(s) ==
    ~\E i \in DOMAIN s._bounds_points :
        \/ s._bounds_points[i] \in s._interp
        \/ s._bounds_points[i] \in OKeys(s._stack)

(* interpolate.LinearNDInterpolator(points, values): the scaled points,    *)
(* their values and the triangulation; None where the triangulation        *)
(* raises.                                                                 *)
LinearNDInterpolator(s, data) ==
    LET points == {L2_scale(s, p) : p \in DOMAIN data}
        tri == Delaunay(points, s.qhull)
    IN  IF tri = <<>> THEN None
        ELSE [points |-> points, tri |-> tri,
              values |-> [q \in points |-> data[L2_unscale(s, q)]]]

(* ip(q): the linear interpolation of the values of ip at the scaled       *)
(* point q, nan outside the triangulation.                                 *)
Interpolate(ip, q) ==
    LET inside(t) == \A i \in 1..3 : RLe(R(0), Cross(t[i], t[(i % 3) + 1], q))
    IN  IF \E j \in DOMAIN ip.tri : inside(ip.tri[j])
        THEN LET t == ip.tri[CHOOSE j \in DOMAIN ip.tri : inside(ip.tri[j])]
                 w(i) == RDiv(Cross(t[(i % 3) + 1], t[((i + 1) % 3) + 1], q),
                              Cross(t[1], t[2], t[3]))
             IN  RAdd(RAdd(RMul(w(1), ip.values[t[1]]),
                           RMul(w(2), ip.values[t[2]])),
                      RMul(w(3), ip.values[t[3]]))
        ELSE NaN

(* The tail of ip(): the interpolator just built is cached, unless its     *)
(* construction raised.                                                    *)
L2_ip_built(s, ip) ==
    IF ip = None THEN [state |-> s, ip |-> None, raised |-> TRUE]
    ELSE [state |-> [s EXCEPT !._ip = ip], ip |-> ip, raised |-> FALSE]

L2_ip(s) ==
    IF s._ip # None THEN [state |-> s, ip |-> s._ip, raised |-> FALSE]
    ELSE L2_ip_built(s, LinearNDInterpolator(s, s.data))

(* Lines 203 and 207-208: the pending points get the values of r = ip().   *)
L2_data_interpolated(s, r) ==
    IF r.raised
    THEN [state |-> s, data_combined |-> s.data, raised |-> TRUE]
    ELSE [state |-> r.state, raised |-> FALSE,
          data_combined |->
              [p \in DOMAIN s.data \cup s._interp |->
                  IF p \in s._interp THEN Interpolate(r.ip, L2_scale(s, p))
                  ELSE s.data[p]]]

L2_data_combined(s) ==
    IF s._interp = {}
    THEN [state |-> s, data_combined |-> s.data, raised |-> FALSE]
    ELSE IF L2_bounds_are_done(s) THEN L2_data_interpolated(s, L2_ip(s))
    ELSE [state |-> s, raised |-> FALSE,
          data_combined |->
              [p \in DOMAIN s.data \cup s._interp |->
                  IF p \in s._interp THEN R(0) ELSE s.data[p]]]

(* Lines 224-226: the interpolator built on r = data_combined() is cached. *)
L2_ip_combined_built(r, ip) ==
    IF ip = None THEN [state |-> r.state, ip |-> None, raised |-> TRUE]
    ELSE [state |-> [r.state EXCEPT !._ip_combined = ip],
          ip |-> ip, raised |-> FALSE]

(* Lines 221-226 on r = data_combined().                                   *)
L2_ip_combined_from(r) ==
    IF r.raised THEN [state |-> r.state, ip |-> None, raised |-> TRUE]
    ELSE L2_ip_combined_built(r, LinearNDInterpolator(r.state, r.data_combined))

L2_ip_combined(s) ==
    IF s._ip_combined # None
    THEN [state |-> s, ip |-> s._ip_combined, raised |-> FALSE]
    ELSE L2_ip_combined_from(L2_data_combined(s))

(* The two branches of add_point, before the pop from the stack.           *)
L2_add_point_value(s, point, value) ==
    IF value = None
    THEN [s EXCEPT !._interp = @ \cup {point}, !._ip_combined = None]
    ELSE [s EXCEPT !.data = Put(@, point, value),
                   !._interp = @ \ {point}, !._ip = None]

L2_add_point(s, point, value) ==
    [L2_add_point_value(s, point, value) EXCEPT !._stack = ODel(@, point)]

(* add_data(points, itertools.repeat(None)) of BaseLearner.                *)
RECURSIVE L2_add_data(_, _)
L2_add_data(s, points) ==
    IF points = <<>> THEN s
    ELSE L2_add_data(L2_add_point(s, Head(points), None), Tail(points))

(* np.argmax(losses): the first index of a greatest entry.                 *)
Argmax(losses) ==
    CHOOSE j \in DOMAIN losses :
        /\ \A m \in DOMAIN losses : ~XLt(losses[j], losses[m])
        /\ \A m \in 1..(j - 1) : XLt(losses[m], losses[j])

(* The loop of _fill_stack from pass j on; L2_fill_pass is one pass with   *)
(* the simplex and its new point chosen.                                   *)
RECURSIVE L2_fill_loop(_, _, _, _, _, _, _)
RECURSIVE L2_fill_pass(_, _, _, _, _, _, _, _, _)
L2_fill_pass(s, ip, losses, j, stack_till, points_new, losses_new, jsimplex, point_new) ==
    IF Len(OSet(s._stack, point_new, losses[jsimplex])) >= stack_till
    THEN [state |-> [s EXCEPT !._stack = OSet(@, point_new, losses[jsimplex])],
          points_new |-> Append(points_new, point_new),
          losses_new |-> Append(losses_new, losses[jsimplex]),
          raised |-> FALSE]
    ELSE L2_fill_loop([s EXCEPT !._stack = OSet(@, point_new, losses[jsimplex])],
                      ip, [losses EXCEPT ![jsimplex] = NegInf],
                      j + 1, stack_till,
                      Append(points_new, point_new),
                      Append(losses_new, losses[jsimplex]))

(* The simplex of greatest loss and the point chosen in it.                *)
L2_fill_choice(s, ip, losses, j, stack_till, points_new, losses_new, jsimplex) ==
    L2_fill_pass(s, ip, losses, j, stack_till, points_new, losses_new, jsimplex,
                 L2_unscale(s, choose_point_in_triangle(ip.tri[jsimplex], 5)))

L2_fill_loop(s, ip, losses, j, stack_till, points_new, losses_new) ==
    IF j > Len(losses)
    THEN [state |-> s, points_new |-> points_new, losses_new |-> losses_new,
          raised |-> FALSE]
    ELSE L2_fill_choice(s, ip, losses, j, stack_till, points_new, losses_new,
                        Argmax(losses))

(* Lines 246-269 on r = ip_combined().                                     *)
L2_fill_from(r, stack_till) ==
    IF r.raised
    THEN [state |-> r.state, points_new |-> <<>>, losses_new |-> <<>>,
          raised |-> TRUE]
    ELSE L2_fill_loop(r.state, r.ip, areas(r.ip), 1, stack_till, <<>>, <<>>)

L2_fill_stack(s, stack_till) ==
    IF Cardinality(DOMAIN s.data) + Cardinality(s._interp) < s.ndim + 1
    THEN [state |-> s, points_new |-> <<>>, losses_new |-> <<>>, raised |-> TRUE]
    ELSE L2_fill_from(L2_ip_combined(s), stack_till)

(* The sequence q in reverse.                                              *)
Reversed(q) == [i \in DOMAIN q |-> q[Len(q) + 1 - i]]

L2_split_stack(s, n) ==
    [points |->
        [i \in 1..(IF n < Len(s._stack) THEN n ELSE Len(s._stack)) |->
            Reversed(s._stack)[i].k],
     loss_improvements |->
        [i \in 1..(IF n < Len(s._stack) THEN n ELSE Len(s._stack)) |->
            Reversed(s._stack)[i].v]]

(* The while loop of choose_points; L2_choose_filled is the rest of one    *)
(* pass, after f = _fill_stack(...).                                       *)
RECURSIVE L2_choose_loop(_, _, _, _)
RECURSIVE L2_choose_filled(_, _, _, _)
L2_choose_filled(f, n_left, points, loss_improvements) ==
    IF f.raised
    THEN [state |-> f.state, points |-> points,
          loss_improvements |-> loss_improvements, raised |-> TRUE]
    ELSE L2_choose_loop(L2_add_data(f.state, f.points_new),
                        n_left - Len(f.points_new),
                        points \o f.points_new,
                        loss_improvements \o f.losses_new)

L2_choose_loop(s, n_left, points, loss_improvements) ==
    IF n_left <= 0
    THEN [state |-> s, points |-> points,
          loss_improvements |-> loss_improvements, raised |-> FALSE]
    ELSE L2_choose_filled(
             L2_fill_stack(s, IF n_left > s.stack_size THEN n_left
                                                       ELSE s.stack_size),
             n_left, points, loss_improvements)

(* The loop that puts points back on the stack, from the i-th point on.    *)
RECURSIVE L2_restack(_, _, _, _, _, _)
L2_restack(s, points, loss_improvements, i, n, add_data) ==
    IF i > Len(points) THEN s
    ELSE L2_restack(IF i - 1 >= n \/ ~add_data
                    THEN [s EXCEPT !._stack = OSet(@, points[i],
                                                   loss_improvements[i])]
                    ELSE s,
                    points, loss_improvements, i + 1, n, add_data)

(* The loop of self._interp.remove(point): removing a point that is not    *)
(* in the set raises KeyError.                                             *)
RECURSIVE L2_remove_points(_, _)
L2_remove_points(s, points) ==
    IF points = <<>> THEN [state |-> s, raised |-> FALSE]
    ELSE IF Head(points) \notin s._interp THEN [state |-> s, raised |-> TRUE]
    ELSE L2_remove_points([s EXCEPT !._interp = @ \ {Head(points)}],
                          Tail(points))

(* Lines 300-302: a dry run takes the proposed points out of _interp.      *)
L2_uncommit(s, points, add_data) ==
    IF ~add_data THEN L2_remove_points(s, points)
    ELSE [state |-> s, raised |-> FALSE]

(* Line 304, after the loops of lines 296-302 have left u.                 *)
L2_choose_return(u, points, loss_improvements, n) ==
    IF u.raised
    THEN [state |-> u.state, points |-> <<>>, loss_improvements |-> <<>>,
          raised |-> TRUE]
    ELSE [state |-> u.state, raised |-> FALSE,
          points |->
              SubSeq(points, 1, IF n < Len(points) THEN n ELSE Len(points)),
          loss_improvements |->
              SubSeq(loss_improvements, 1,
                     IF n < Len(loss_improvements) THEN n
                     ELSE Len(loss_improvements))]

(* Lines 296-304 on w, the outcome of the while loop.                      *)
L2_choose_finish(w, n, add_data) ==
    IF w.raised
    THEN [state |-> w.state, points |-> <<>>, loss_improvements |-> <<>>,
          raised |-> TRUE]
    ELSE L2_choose_return(
             L2_uncommit(L2_restack(w.state, w.points, w.loss_improvements, 1,
                                    n, add_data),
                         w.points, add_data),
             w.points, w.loss_improvements, n)

(* Lines 281-294 on sp, the points taken from the stack.                   *)
L2_choose_from_stack(s, sp, n, add_data) ==
    L2_choose_finish(L2_choose_loop(L2_add_data(s, sp.points),
                                    n - Len(sp.points),
                                    sp.points, sp.loss_improvements),
                     n, add_data)

L2_choose_points(s, n, add_data) ==
    L2_choose_from_stack(s, L2_split_stack(s, n), n, add_data)

(* Lines 309-311 on r, the interpolator asked for.                         *)
L2_loss_of(r) ==
    IF r.raised THEN [state |-> r.state, value |-> None, raised |-> TRUE]
    ELSE [state |-> r.state, raised |-> FALSE,
          value |-> MaxOf(Range(areas(r.ip)))]

(* loss(real): the greatest area, or +inf while a corner is on the stack   *)
(* or pending.                                                             *)
L2_loss(s, real) ==
    IF ~L2_bounds_are_done(s)
    THEN [state |-> s, value |-> Inf, raised |-> FALSE]
    ELSE L2_loss_of(IF real THEN L2_ip(s) ELSE L2_ip_combined(s))

L2_remove_unfinished(s) == [s EXCEPT !._interp = {}]

(* The points add_point is called with besides the proposed ones: a       *)
(* corner of the bounds and their centre.                                  *)
L2Xs == {<<R(0), R(0)>>, <<R(1), Rat(1, 2)>>}

L2ChoosePoints ==
    /\ cls = "l2d" /\ Running
    /\ \E n \in 1..MaxL2Choose, add_data \in BOOLEAN :
        LET r == L2_choose_points(l2, n, add_data)
        IN  /\ calls < MaxL2Calls /\ calls' = calls + 1
            /\ Cardinality(DOMAIN l2.data \cup l2._interp) <= MaxL2Points
            /\ l2' = r.state
            /\ ret' = [NoRet EXCEPT !.op = "choose_points", !.n = n,
                                    !.add_data = add_data,
                                    !.points = r.points,
                                    !.loss_improvements = r.loss_improvements,
                                    !.raised = r.raised]
    /\ UNCHANGED <<cls, obj, avg, l1, bal>>

L2AddPoint ==
    /\ cls = "l2d" /\ Running
    /\ calls < MaxL2Calls /\ calls' = calls + 1
    /\ \E point \in L2Xs, value \in L2Ys \cup {None} :
        /\ l2' = L2_add_point(l2, point, value)
        /\ ret' = [NoRet EXCEPT !.op = "add_point", !.x = point, !.y = value]
    /\ UNCHANGED <<cls, obj, avg, l1, bal>>

(* add_data(xvalues, yvalues) of BaseLearner with a real value for each    *)
(* corner of the bounds.                                                   *)
RECURSIVE L2_add_real_data(_, _, _)
L2_add_real_data(s, xvalues, yvalues) ==
    IF xvalues = <<>> \/ yvalues = <<>> THEN s
    ELSE L2_add_real_data(L2_add_point(s, Head(xvalues), Head(yvalues)),
                          Tail(xvalues), Tail(yvalues))

L2AddData ==
    /\ cls = "l2d" /\ Running
    /\ calls < MaxL2Calls /\ calls' = calls + 1
    /\ \E value \in L2Ys :
        LET yvalues == [i \in DOMAIN l2._bounds_points |-> value]
        IN  /\ l2' = L2_add_real_data(l2, l2._bounds_points, yvalues)
            /\ ret' = [NoRet EXCEPT !.op = "add_data", !.y = value]
    /\ UNCHANGED <<cls, obj, avg, l1, bal>>

(* The runner reports the value of a point choose_points proposed.         *)
L2AddChosen ==
    /\ cls = "l2d" /\ Running
    /\ ret.op = "choose_points"
    /\ calls < MaxL2Calls /\ calls' = calls + 1
    /\ \E i \in DOMAIN ret.points, value \in L2Ys :
        /\ l2' = L2_add_point(l2, ret.points[i], value)
        /\ ret' = [NoRet EXCEPT !.op = "add_point", !.x = ret.points[i],
                                !.y = value]
    /\ UNCHANGED <<cls, obj, avg, l1, bal>>

L2Loss ==
    /\ cls = "l2d" /\ Running
    /\ \E real \in BOOLEAN :
        LET r == L2_loss(l2, real)
        IN  /\ l2' = r.state
            /\ ret' = [NoRet EXCEPT !.op = "loss", !.real = real,
                                    !.value = r.value, !.raised = r.raised]
    /\ UNCHANGED <<cls, obj, avg, l1, bal, calls>>

L2RemoveUnfinished ==
    /\ cls = "l2d" /\ Running
    /\ calls < MaxL2Calls /\ calls' = calls + 1
    /\ l2' = L2_remove_unfinished(l2)
    /\ ret' = [NoRet EXCEPT !.op = "remove_unfinished"]
    /\ UNCHANGED <<cls, obj, avg, l1, bal>>

NextL2D ==
    \/ L2ChoosePoints \/ L2AddPoint \/ L2AddData \/ L2AddChosen
    \/ L2Loss \/ L2RemoveUnfinished

---------------------------------------------------------------------------
(* BalancingLearner                                                        *)

(* learner.__class__, read off the instance's attributes.                  *)
ClassOf(s) == IF "atol" \in DOMAIN s THEN "AverageLearner" ELSE "Learner1D"

(* The method calls learner.choose_points and learner.add_point,           *)
(* dispatched on the class of the learner.                                 *)
Learner_choose_points(s, n, add_data) ==
    IF ClassOf(s) = "AverageLearner" THEN Avg_choose_points(s, n, add_data)
    ELSE L1_choose_points(s, n, add_data)

Learner_add_point(s, x, y) ==
    IF ClassOf(s) = "AverageLearner" THEN Avg_add_point(s, x, y)
    ELSE L1_add_point(s, x, y)

(* __init__ that takes learners of any classes.                            *)
Bal_init_accepts(learners) == FALSE

(* __init__ raises TypeError when the learners are of more than one class. *)
Bal_init_raises(learners) ==
    Cardinality({ClassOf(learners[i]) : i \in DOMAIN learners}) > 1

(* __init__: the instance holds the list of learners.                      *)
Bal_init(learners) == [learners |-> learners]

(* add_point that forwards nothing to the learner.                          *)
Bal_add_point_dropped(s, x, y) == s

(* add_point((index, x), y); index counts from 0.                          *)
Bal_add_point(s, x, y) ==
    [s EXCEPT !.learners[x[1] + 1] = Learner_add_point(@, x[2], y)]

(* The answer r of a learner makes the inner loop of lines 438-441 raise:  *)
(* its choose_points raised, or it returned an empty list (IndexError at   *)
(* [0]).  Bal_first_failed is the position, from 1, of the first such      *)
(* learner, or 0.                                                          *)
Bal_failed(r) == r.raised \/ r.points = <<>> \/ r.loss_improvements = <<>>

Bal_first_failed(asked) ==
    IF \E i \in DOMAIN asked : Bal_failed(asked[i])
    THEN CHOOSE i \in DOMAIN asked :
            /\ Bal_failed(asked[i])
            /\ \A j \in 1..(i - 1) : ~Bal_failed(asked[j])
    ELSE 0

(* max(zip(pairs, loss_improvements), key=itemgetter(1)): the position of  *)
(* the first element that no other exceeds; max compares each later key    *)
(* with the best key so far, so it raises as soon as there are two         *)
(* elements and a key is None.                                             *)
Bal_max_raises(loss_improvements) ==
    /\ Len(loss_improvements) >= 2
    /\ \E i \in DOMAIN loss_improvements : loss_improvements[i] = None

Bal_max(loss_improvements) ==
    CHOOSE i \in DOMAIN loss_improvements :
        /\ \A j \in DOMAIN loss_improvements :
               ~XLt(loss_improvements[i], loss_improvements[j])
        /\ \A j \in 1..(i - 1) :
               XLt(loss_improvements[j], loss_improvements[i])

(* One pass of the outer loop of _choose_and_add_points, given the         *)
(* answers `asked` of the learners to choose_points(n=1, add_data=False).  *)
RECURSIVE Bal_choose_loop(_, _, _)
Bal_choose_pass(s, n, points, asked) ==
    LET first == Bal_first_failed(asked)
        after == [s EXCEPT !.learners =
                     [i \in DOMAIN s.learners |->
                         IF first = 0 \/ i <= first THEN asked[i].state
                         ELSE s.learners[i]]]
        loss_improvements == [i \in DOMAIN asked |-> asked[i].loss_improvements[1]]
        index == Bal_max(loss_improvements)
        x == <<index - 1, asked[index].points[1]>>
    IN  IF first # 0 \/ Bal_max_raises(loss_improvements)
        THEN [state |-> after, points |-> points, raised |-> TRUE]
        ELSE Bal_choose_loop(Bal_add_point(after, x, None), n - 1,
                             Append(points, x))

Bal_choose_loop(s, n, points) ==
    IF n = 0 THEN [state |-> s, points |-> points, raised |-> FALSE]
    ELSE Bal_choose_pass(s, n, points,
            [i \in DOMAIN s.learners |->
                Learner_choose_points(s.learners[i], 1, FALSE)])

Bal_choose_and_add_points(s, n) == Bal_choose_loop(s, n, <<>>)

(* The context manager restore, lines 844-851: __getstate__ deep-copies   *)
(* the __dict__ of each learner before the body runs; the finally clause   *)
(* hands each copy back through __setstate__, also when the body raised.   *)
restore_nothing(states, r) == r

restore(states, r) == [r EXCEPT !.state.learners = states]

(* The with statement of lines 450-452 around the result r of the body:    *)
(* entered only when add_data is false.                                    *)
Bal_with_restore(add_data, states, r) ==
    IF ~add_data THEN restore(states, r) ELSE r

(* choose_points(n, add_data): the learners after the call, the list of    *)
(* (index, x) pairs and None in place of the loss-improvements.            *)
Bal_choose_points(s, n, add_data) ==
    Bal_with_restore(add_data, s.learners, Bal_choose_and_add_points(s, n))

Bal_remove_unfinished(s) ==
    [s EXCEPT !.learners =
        [i \in DOMAIN s.learners |->
            IF ClassOf(s.learners[i]) = "AverageLearner"
            THEN Avg_remove_unfinished(s.learners[i])
            ELSE L1_remove_unfinished(s.learners[i])]]

(* The x values add_point is called with on a learner of the class: two   *)
(* indices of an AverageLearner, the bounds of a Learner1D.  The value is  *)
(* 1 or pending.                                                           *)
BalXs(s) ==
    IF ClassOf(s) = "AverageLearner" THEN 0..1 ELSE Range(L1Bounds)

BalChoosePoints ==
    /\ cls = "bal" /\ Running
    /\ \E n \in 1..MaxBalChoose, add_data \in BOOLEAN :
        \E r \in {Bal_choose_points(bal, n, add_data)} :
            /\ add_data => calls < MaxBalCalls
            /\ calls' = IF add_data THEN calls + 1 ELSE calls
            /\ bal' = r.state
            /\ ret' = [NoRet EXCEPT !.op = "choose_points", !.n = n,
                                    !.add_data = add_data,
                                    !.points = r.points,
                                    !.loss_improvements = None,
                                    !.raised = r.raised]
    /\ UNCHANGED <<cls, obj, avg, l1, l2>>

BalAddPoint ==
    /\ cls = "bal" /\ Running
    /\ calls < MaxBalCalls /\ calls' = calls + 1
    /\ \E i \in DOMAIN bal.learners :
        \E x \in BalXs(bal.learners[i]), y \in {R(1), None} :
            /\ bal' = Bal_add_point(bal, <<i - 1, x>>, y)
            /\ ret' = [NoRet EXCEPT !.op = "add_point", !.x = <<i - 1, x>>, !.y = y]
    /\ UNCHANGED <<cls, obj, avg, l1, l2>>

BalRemoveUnfinished ==
    /\ cls = "bal" /\ Running
    /\ calls < MaxBalCalls /\ calls' = calls + 1
    /\ bal' = Bal_remove_unfinished(bal)
    /\ ret' = [NoRet EXCEPT !.op = "remove_unfinished"]
    /\ UNCHANGED <<cls, obj, avg, l1, l2>>

NextBal == BalChoosePoints \/ BalAddPoint \/ BalRemoveUnfinished

---------------------------------------------------------------------------
(* BaseLearner.__getstate__ and __setstate__                               *)

(* A learner as an object o: o.dicts is the heap of dicts allocated so     *)
(* far, o.self the position of the one that is the learner's __dict__,     *)
(* o.states the snapshots __getstate__ has returned, each the position     *)
(* ref of the dict returned and, as history, its contents when taken.      *)

(* __getstate__: copy(self.__dict__), a deep copy, is a new dict.          *)
Base_getstate(o) ==
    [o EXCEPT !.dicts = Append(@, o.dicts[o.self]),
              !.states = Append(@, [ref |-> Len(o.dicts) + 1,
                                    taken |-> o.dicts[o.self]])]

(* __setstate__: `self.__dict__ = state` makes the dict handed in the      *)
(* __dict__ of the learner; nothing is copied.                             *)
Base_setstate(o, state) == [o EXCEPT !.self = state]

ObjGetstate ==
    /\ cls = "obj" /\ Running
    /\ Len(obj.states) < MaxSnapshots
    /\ obj' = Base_getstate(obj)
    /\ ret' = [NoRet EXCEPT !.op = "getstate"]
    /\ UNCHANGED <<cls, avg, l1, l2, bal, calls>>

(* __setstate__ with a snapshot taken earlier, the n-th.                   *)
ObjSetstate ==
    /\ cls = "obj" /\ Running
    /\ \E n \in DOMAIN obj.states :
         /\ obj' = Base_setstate(obj, obj.states[n].ref)
         /\ ret' = [NoRet EXCEPT !.op = "setstate", !.n = n]
    /\ UNCHANGED <<cls, avg, l1, l2, bal, calls>>

(* add_point assigns to the attributes of self, that is, to the dict that  *)
(* is the learner's __dict__ at the time.                                  *)
ObjAddPoint ==
    /\ cls = "obj" /\ Running
    /\ calls < MaxObjCalls /\ calls' = calls + 1
    /\ \E x \in BalXs(obj.dicts[obj.self]), y \in {R(1), None} :
         /\ obj' = [obj EXCEPT !.dicts[obj.self] = Learner_add_point(@, x, y)]
         /\ ret' = [NoRet EXCEPT !.op = "add_point", !.x = x, !.y = y]
    /\ UNCHANGED <<cls, avg, l1, l2, bal>>

NextObj == ObjGetstate \/ ObjSetstate \/ ObjAddPoint

---------------------------------------------------------------------------
(* Specifications                                                          *)

InitAvg ==
    /\ cls = "avg"
    /\ \E atol \in AvgTolerances, rtol \in AvgTolerances :
         /\ avg = IF Avg_init_raises(atol, rtol) THEN None ELSE Avg_init(atol, rtol)
         /\ ret = [NoRet EXCEPT !.x = atol, !.y = rtol,
                                !.raised = Avg_init_raises(atol, rtol)]
    /\ l1 = None
    /\ l2 = None
    /\ bal = None
    /\ obj = None
    /\ calls = 0

SpecAvg == InitAvg /\ [][NextAvg]_vars

InitL1D ==
    /\ cls = "l1d"
    /\ avg = None
    /\ l1 = L1_init(L1Bounds)
    /\ l2 = None
    /\ bal = None
    /\ obj = None
    /\ ret = NoRet
    /\ calls = 0

SpecL1D == InitL1D /\ [][NextL1D]_vars

InitL2D ==
    /\ cls = "l2d"
    /\ avg = None
    /\ l1 = None
    /\ \E qhull \in {"min", "max"} : l2 = L2_init(L2Bounds, qhull)
    /\ bal = None
    /\ obj = None
    /\ ret = NoRet
    /\ calls = 0

SpecL2D == InitL2D /\ [][NextL2D]_vars

(* The learners a BalancingLearner is constructed over, by class: a fresh  *)
(* AverageLearner; a Learner1D, fresh or already holding the values 0 and  *)
(* 1 at the bounds.  The constructor is called with 1..MaxLearners         *)
(* learners, all in one state or the first of another class than the rest. *)
BalLearners ==
    {{Avg_init(Rat(1, 10), None)},
     {L1_init(L1Bounds)}
        \cup {L1_add_point(s, R(1), R(1)) :
                 s \in {L1_add_point(L1_init(L1Bounds), R(0), R(0))}}}

InitBal ==
    /\ cls = "bal"
    /\ avg = None
    /\ l1 = None
    /\ l2 = None
    /\ obj = None
    /\ \E k \in 1..MaxLearners, c1 \in BalLearners, c2 \in BalLearners :
         \E a \in c1, b \in c2 :
            \E learners \in {[i \in 1..k |-> IF i = 1 THEN a ELSE b]} :
                /\ a = b \/ c1 # c2
                /\ bal = IF Bal_init_raises(learners) THEN None
                         ELSE Bal_init(learners)
                /\ ret = [NoRet EXCEPT !.points = learners,
                                       !.raised = Bal_init_raises(learners)]
    /\ calls = 0

SpecBal == InitBal /\ [][NextBal]_vars

(* A learner of one of the classes of BalLearners, with no snapshot yet.   *)
InitObj ==
    /\ cls = "obj"
    /\ avg = None
    /\ l1 = None
    /\ l2 = None
    /\ bal = None
    /\ \E learner \in UNION BalLearners :
         obj = [dicts |-> <<learner>>, self |-> 1, states |-> <<>>]
    /\ ret = NoRet
    /\ calls = 0

SpecObj == InitObj /\ [][NextObj]_vars

---------------------------------------------------------------------------
(* Properties                                                              *)

RECURSIVE SumSeq(_)
SumSeq(q) == IF q = <<>> THEN 0 ELSE Head(q) + SumSeq(Tail(q))

(* x lies strictly inside the interval iv.                                 *)
StrictlyInside(x, iv) == RLt(iv[1], x) /\ RLt(x, iv[2])

(* The last call was a Learner1D.choose_points that returned.              *)
L1Chose == cls = "l1d" /\ ret.op = "choose_points" /\ ~ret.raised

(* Both bounds of the Learner1D are real or pending.                       *)
L1BoundsPresent ==
    \A i \in DOMAIN l1.bounds :
        l1.bounds[i] \in DOMAIN l1.data \cup DOMAIN l1.data_interp

(* C1: after Learner1D.choose_points(n, add_data=True) with n >= 1 the     *)
(* call has completed without raising and every returned x is a key of     *)
(* data or of data_interp.                                                 *)
C1_ChosenPointsAreKeys ==
    (cls = "l1d" /\ ret.op = "choose_points" /\ ret.add_data /\ ret.n >= 1)
        => /\ ~ret.raised
           /\ \A i \in DOMAIN ret.points :
                ret.points[i] \in DOMAIN l1.data \cup DOMAIN l1.data_interp

(* C2: choose_points(n) returns one loss-improvement per returned point.   *)
C2_OneImprovementPerPoint ==
    (ret.op = "choose_points" /\ ~ret.raised)
        => Len(ret.loss_improvements) = Len(ret.points)

(* C3: Learner1D.choose_points(n) with n >= 1 returns exactly n points.    *)
C3_ExactlyNPoints == L1Chose => Len(ret.points) = ret.n

(* C4: Learner1D.choose_points(n, add_data=False) leaves data,             *)
(* data_interp, losses, losses_combined, neighbors, neighbors_combined     *)
(* and the scale as they were, and the same call made again returns the    *)
(* same points.                                                            *)
C4_DryRunChangesNothing ==
    [][(cls = "l1d" /\ ret'.op = "choose_points" /\ ~ret'.add_data)
        => /\ l1'.data = l1.data
           /\ l1'.data_interp = l1.data_interp
           /\ l1'.losses = l1.losses
           /\ l1'.losses_combined = l1.losses_combined
           /\ l1'.neighbors = l1.neighbors
           /\ l1'.neighbors_combined = l1.neighbors_combined
           /\ l1'.scale = l1.scale /\ l1'.oldscale = l1.oldscale
           /\ l1'.bbox = l1.bbox
           /\ ~ret'.raised
           /\ L1_choose_points(l1', ret'.n, FALSE).points = ret'.points]_vars

(* A dry run has distributed points over the intervals of a learner that   *)
(* holds real and pending points.                                          *)
C4_Witness ==
    /\ L1Chose /\ ~ret.add_data /\ ret.quals # <<>>
    /\ DOMAIN l1.data # {} /\ DOMAIN l1.data_interp # {}
    /\ Len(ret.points) = 3

MaxDensity(losses, k) ==
    MaxOf({RDiv(losses[i].v, RSq(R(k[i]))) : i \in DOMAIN losses})

(* The evenly spaced points that cut the interval iv into k pieces.        *)
EvenCuts(iv, k) ==
    {RAdd(iv[1], RMul(Rat(j, k), RSub(iv[2], iv[1]))) : j \in 1..(k - 1)}

(* C6: with both bounds present and N intervals in losses_combined, the    *)
(* heap loop of choose_points(n) ends with one subdivision count k_i >= 1  *)
(* per interval, the counts sum to N + n and minimise max(loss_i / k_i)    *)
(* over all allocations of positive integers with that sum, and the        *)
(* returned points are the k_i - 1 evenly spaced interior points of each   *)
(* interval.                                                               *)
C6_AllocationMinimisesMaxDensity ==
    (L1Chose /\ L1BoundsPresent)
        => LET losses == l1.losses_combined
               N == Len(losses)
               q == ret.quals
               k == [i \in DOMAIN losses |->
                        (CHOOSE e \in Range(q) : e.x = losses[i].k).n]
           IN  /\ Len(q) = N
               /\ {q[i].x : i \in DOMAIN q} = OKeys(losses)
               /\ \A i \in DOMAIN q : q[i].n >= 1
               /\ SumSeq(k) = N + ret.n
               /\ \A a \in [1..N -> 1..(ret.n + 1)] :
                      SumSeq(a) = N + ret.n
                          => RLe(MaxDensity(losses, k), MaxDensity(losses, a))
               /\ Range(ret.points) =
                      UNION {EvenCuts(losses[i].k, k[i]) : i \in DOMAIN losses}
               /\ Len(ret.points) = SumSeq([i \in DOMAIN k |-> k[i] - 1])

(* Three points have been distributed over two intervals of different      *)
(* loss, both of which received some.                                      *)
C6_Witness ==
    /\ L1Chose /\ L1BoundsPresent /\ ret.n = 3
    /\ Len(ret.quals) = 2
    /\ l1.losses_combined[1].v # l1.losses_combined[2].v
    /\ \A i \in DOMAIN ret.quals : ret.quals[i].n >= 2

(* C7: with both bounds present, loss_improvements[i] is the original      *)
(* loss of the interval that contains the returned point xs[i], divided    *)
(* by that interval's final subdivision count.                             *)
C7_ImprovementDescribesItsPoint ==
    (L1Chose /\ L1BoundsPresent)
        => \A i \in DOMAIN ret.points :
             /\ i \in DOMAIN ret.loss_improvements
             /\ \E j \in DOMAIN ret.quals :
                  /\ StrictlyInside(ret.points[i], ret.quals[j].x)
                  /\ ret.loss_improvements[i] =
                        RDiv(OGet(l1.losses_combined, ret.quals[j].x),
                             RSq(R(ret.quals[j].n)))

(* C8: for AverageLearner, Learner1D and Learner2D, add_point(x, pending)  *)
(* for any x, new, already pending or already real, leaves the value       *)
(* returned by loss(real=True) unchanged.                                  *)
C8_PendingLeavesRealLoss ==
    [][(ret'.op = "add_point" /\ ret'.y = None)
        => /\ cls = "avg" => Avg_loss(avg', TRUE) = Avg_loss(avg, TRUE)
           /\ cls = "l1d" => L1_loss(l1', TRUE) = L1_loss(l1, TRUE)
           /\ cls = "l2d" => /\ L2_loss(l2', TRUE).value = L2_loss(l2, TRUE).value
                             /\ L2_loss(l2', TRUE).raised = L2_loss(l2, TRUE).raised]_vars

(* C9: AverageLearner.choose_points(n) returns n consecutive integers,     *)
(* none of them a key of data before the call, starting at the requested   *)
(* count; a call with add_data=True moves the requested count past the     *)
(* returned range, and no call ever moves it back, so successive ranges    *)
(* increase and do not overlap.                                            *)
C9_NextUnusedIndices ==
    [][cls = "avg" =>
        /\ avg'.n_requested >= avg.n_requested
        /\ ret'.op = "choose_points" =>
             /\ Len(ret'.points) = ret'.n
             /\ \A i \in DOMAIN ret'.points :
                  /\ ret'.points[i] = avg.n_requested + i - 1
                  /\ ret'.points[i] \notin DOMAIN avg.data
             /\ ret'.add_data => avg'.n_requested = avg.n_requested + ret'.n]_vars

(* C10: AverageLearner.loss(real) never raises: it returns +inf with       *)
(* fewer than 2 real values and a non-negative number otherwise.           *)
C10_LossNeverRaises ==
    cls = "avg" =>
        \A real \in BOOLEAN :
            LET r == Avg_loss(avg, real)
            IN  /\ r.kind # "raise"
                /\ avg.n < 2 => r.kind = "inf"
                /\ avg.n >= 2 => (r.kind = "num" /\ RLe(R(0), r.sq))

(* The indices at which data holds a real value, and those at which it     *)
(* holds the pending sentinel.                                             *)
AvgRealKeys(s) == {k \in DOMAIN s.data : s.data[k] # None}
AvgPendingKeys(s) == {k \in DOMAIN s.data : s.data[k] = None}

(* The sum of f[k] over the keys k in S.                                   *)
RECURSIVE RSumOver(_, _)
RSumOver(S, f) ==
    IF S = {} THEN R(0)
    ELSE LET k == CHOOSE j \in S : TRUE
         IN  RAdd(f[k], RSumOver(S \ {k}, f))

(* C11: for AverageLearner, a pending add_point (also one made by          *)
(* choose_points) changes the requested count only, a real add_point       *)
(* adds 1 to the observed count, the value to sum_f and its square to      *)
(* sum_f_sq; with fewer than 2 real values loss returns +inf; and after    *)
(* N real values at N distinct indices mean is their arithmetic mean and,  *)
(* for N >= 2, std^2 * (N - 1) is the sum of their squared deviations      *)
(* from the mean.                                                          *)
C11_RunningMoments ==
    [][cls = "avg" =>
        /\ (ret'.op = "choose_points" \/ (ret'.op = "add_point" /\ ret'.y = None))
            => /\ avg'.n = avg.n
               /\ avg'.sum_f = avg.sum_f
               /\ avg'.sum_f_sq = avg.sum_f_sq
        /\ (ret'.op = "add_point" /\ ret'.y = None)
            => avg'.n_requested = avg.n_requested + 1
        /\ (ret'.op = "add_point" /\ ret'.y # None)
            => /\ avg'.n = avg.n + 1
               /\ avg'.n_requested = avg.n_requested
               /\ avg'.sum_f = RAdd(avg.sum_f, ret'.y)
               /\ avg'.sum_f_sq = RAdd(avg.sum_f_sq, RSq(ret'.y))
        /\ avg'.n < 2
            => \A real \in BOOLEAN : Avg_loss(avg', real).kind = "inf"
        /\ (avg'.n >= 1 /\ Cardinality(AvgRealKeys(avg')) = avg'.n)
            => LET K == AvgRealKeys(avg')
                   N == avg'.n
                   mean == RDiv(RSumOver(K, avg'.data), R(N))
                   dev == [k \in K |-> RSq(RSub(avg'.data[k], mean))]
               IN  /\ Avg_mean(avg') = mean
                   /\ N >= 2 => RMul(Avg_std(avg'), R(N - 1)) = RSumOver(K, dev)]_vars

(* Three real values, not all equal, stand at three indices and a pending  *)
(* request was made in between.                                            *)
C11_Witness ==
    /\ cls = "avg" /\ ret.op = "add_point" /\ ret.y # None
    /\ avg.n = 3 /\ avg.n_requested = 1
    /\ Cardinality(AvgRealKeys(avg)) = 3
    /\ Avg_std(avg) # R(0)

(* C12: constructing an AverageLearner with no finite tolerance (atol and  *)
(* rtol unset or infinite) raises, and no instance has atol and rtol both  *)
(* infinite.                                                               *)
C12_FiniteToleranceRequired ==
    cls = "avg" =>
        /\ (ret.op = "init" /\ ~IsNum(ret.x) /\ ~IsNum(ret.y)) => ret.raised
        /\ avg # None => ~(avg.atol = Inf /\ avg.rtol = Inf)

(* C13: after remove_unfinished() no pending entry remains:                *)
(* AverageLearner.data holds no None value, Learner1D.data_interp is       *)
(* empty, Learner2D._interp is empty, and the same holds of every learner  *)
(* a BalancingLearner wraps.                                               *)
C13_RemoveUnfinishedPurgesPending ==
    ret.op = "remove_unfinished" =>
        /\ cls = "avg" => AvgPendingKeys(avg) = {}
        /\ cls = "l1d" => DOMAIN l1.data_interp = {}
        /\ cls = "l2d" => l2._interp = {}
        /\ cls = "bal" =>
              \A i \in DOMAIN bal.learners :
                  IF ClassOf(bal.learners[i]) = "AverageLearner"
                  THEN AvgPendingKeys(bal.learners[i]) = {}
                  ELSE DOMAIN bal.learners[i].data_interp = {}

(* Learner2D: choose_points(n, add_data=True) and remove_unfinished() on   *)
(* the state s lead to b; the next choose_points(n) proposes what the      *)
(* first call a proposed, and loss(real) is what it was in s.              *)
L2Reproposes(s, a, b, n) ==
    /\ L2_loss(b, TRUE).raised = L2_loss(s, TRUE).raised
    /\ L2_loss(b, TRUE).value = L2_loss(s, TRUE).value
    /\ ~L2_choose_points(b, n, TRUE).raised
    /\ L2_choose_points(b, n, TRUE).points = a.points

(* C14: for AverageLearner and Learner2D, from a state with no pending     *)
(* entries, choose_points(n, add_data=True) followed by                    *)
(* remove_unfinished() leaves loss(real) and the points the next           *)
(* choose_points(n) proposes as they were before the first call.           *)
C14_ProposalsAreReversible ==
    /\ (cls = "avg" /\ Running /\ AvgPendingKeys(avg) = {})
        => \A n \in 1..MaxChoose :
            LET a == Avg_choose_points(avg, n, TRUE)
                b == Avg_remove_unfinished(a.state)
            IN  /\ Avg_loss(b, TRUE) = Avg_loss(avg, TRUE)
                /\ Avg_choose_points(b, n, TRUE).points = a.points
    /\ (cls = "l2d" /\ Running /\ l2._interp = {})
        => \A n \in 1..MaxL2Choose :
            LET a == L2_choose_points(l2, n, TRUE)
            IN  ~a.raised => L2Reproposes(l2, a, L2_remove_unfinished(a.state), n)

(* The result r of a loss call is the number +inf.                         *)
LossIsInf(r) == ~r.raised /\ r.value = Inf

(* C15: for Learner2D, whenever one of the four corner points of the       *)
(* bounds has no real value in data, loss(real=True) returns +inf: it      *)
(* neither raises nor returns a finite value.                              *)
C15_MissingCornerLossIsInf ==
    (cls = "l2d" /\ Running
        /\ \E i \in DOMAIN l2._bounds_points :
               l2._bounds_points[i] \notin DOMAIN l2.data)
        => LossIsInf(L2_loss(l2, TRUE))

(* C16: for Learner2D, after choose_points(n, add_data=True) the pending   *)
(* set _interp is its value before the call plus exactly the returned      *)
(* points.                                                                 *)
C16_OnlyReturnedPointsPending ==
    [][(cls = "l2d" /\ ret'.op = "choose_points" /\ ret'.add_data /\ ~ret'.raised)
        => l2'._interp = l2._interp \cup Range(ret'.points)]_vars

(* C17: for Learner2D, choose_points(n, add_data=False) leaves the real    *)
(* data map and the pending set _interp as they were.                      *)
C17_DryRunKeepsPending ==
    [][(cls = "l2d" /\ ret'.op = "choose_points" /\ ~ret'.add_data)
        => /\ l2'.data = l2.data
           /\ l2'._interp = l2._interp]_vars

(* The last call was BalancingLearner.choose_points over learners of the   *)
(* given class.                                                            *)
BalChose(class) ==
    /\ cls = "bal" /\ ret.op = "choose_points"
    /\ \A i \in DOMAIN bal.learners : ClassOf(bal.learners[i]) = class

(* C18: a BalancingLearner over Learner1D children returns from            *)
(* choose_points(n) exactly n (engine_index, x) pairs, no two of them      *)
(* the same pair.                                                          *)
C18_BalancedPairsDistinct ==
    BalChose("Learner1D")
        => /\ ~ret.raised
           /\ Len(ret.points) = ret.n
           /\ \A i, j \in DOMAIN ret.points :
                  i # j => ret.points[i] # ret.points[j]

(* Two points were proposed inside the intervals of two Learner1D          *)
(* children, one for each child.                                           *)
C18_Witness ==
    /\ BalChose("Learner1D") /\ ~ret.raised
    /\ Len(bal.learners) = 2 /\ ret.n = 2
    /\ {ret.points[i][1] : i \in DOMAIN ret.points} = {0, 1}
    /\ \A i \in DOMAIN ret.points : ret.points[i][2] \notin Range(L1Bounds)

(* C19: a BalancingLearner over two or more AverageLearner children        *)
(* completes choose_points(n), n >= 1, without raising and returns n       *)
(* (engine_index, index) pairs.                                            *)
C19_BalancesAverageLearners ==
    (BalChose("AverageLearner") /\ Len(bal.learners) >= 2)
        => /\ ~ret.raised
           /\ Len(ret.points) = ret.n

(* C20: BalancingLearner.choose_points(n, add_data=False) leaves every     *)
(* wrapped learner in the state it had before the call, whether the call   *)
(* returns or raises.                                                      *)
C20_BalancedDryRunPersistsNothing ==
    [][(cls = "bal" /\ ret'.op = "choose_points" /\ ~ret'.add_data)
        => bal' = bal]_vars

(* A dry run over two Learner1D children, one of them holding pending      *)
(* points, has proposed a point for each child.                            *)
C20_Witness ==
    /\ BalChose("Learner1D") /\ ~ret.add_data /\ ~ret.raised
    /\ Len(bal.learners) = 2 /\ Len(ret.points) = 2
    /\ {ret.points[i][1] : i \in DOMAIN ret.points} = {0, 1}
    /\ \E i \in DOMAIN bal.learners : DOMAIN bal.learners[i].data_interp # {}

(* The two-element entry [left neighbor, right neighbor] of x among the    *)
(* keys: the largest key below x and the smallest key above x, None where  *)
(* there is none.                                                          *)
NeighborsAmong(x, keys) ==
    LET below == {k \in keys : RLt(k, x)}
        above == {k \in keys : RLt(x, k)}
    IN  <<IF below = {} THEN None ELSE MaxOf(below),
          IF above = {} THEN None ELSE MinOf(above)>>

(* The neighbor map nb is exact for the set of keys.                       *)
NeighborsExact(nb, keys) ==
    /\ DOMAIN nb = keys
    /\ \A x \in keys : nb[x] = NeighborsAmong(x, keys)

(* C23: in Learner1D, after any sequence of add_point (real or pending)    *)
(* and remove_unfinished calls, neighbors has the keys of data and         *)
(* neighbors_combined those of data and data_interp together, and each     *)
(* entry is [largest key below x or None, smallest key above x or None]    *)
(* among those keys.                                                       *)
C23_NeighborMapsExact ==
    (cls = "l1d" /\ Running)
        => /\ NeighborsExact(l1.neighbors, DOMAIN l1.data)
           /\ NeighborsExact(l1.neighbors_combined, L1Keys(l1))

(* A pending point lies between two real points, so the two maps differ    *)
(* at all three keys.                                                      *)
C23_Witness ==
    /\ cls = "l1d" /\ Running /\ ret.op = "add_point"
    /\ Cardinality(DOMAIN l1.data) = 2
    /\ \E x \in DOMAIN l1.data_interp :
          /\ x \notin DOMAIN l1.data
          /\ \E a, b \in DOMAIN l1.data : RLt(a, x) /\ RLt(x, b)

(* The pairs (x, right neighbor of x) of the neighbor map nb.              *)
NeighborPairs(nb) ==
    {<<x, nb[x][2]>> : x \in {k \in DOMAIN nb : nb[k][2] # None}}

(* C24: in Learner1D, after any sequence of add_point (real or pending)    *)
(* and remove_unfinished calls, the keys of losses are exactly the pairs   *)
(* (x, right neighbor of x) of neighbors and the keys of losses_combined   *)
(* exactly those of neighbors_combined: the entry of a split pair is gone  *)
(* and no entry exists for a missing neighbor.                             *)
C24_LossKeysFollowNeighbors ==
    (cls = "l1d" /\ Running)
        => /\ OKeys(l1.losses) = NeighborPairs(l1.neighbors)
           /\ OKeys(l1.losses_combined) = NeighborPairs(l1.neighbors_combined)

(* A real point was inserted last, between two adjacent real keys: the     *)
(* interval it split had an entry, which is gone.                          *)
C24_Witness ==
    /\ cls = "l1d" /\ Running /\ ret.op = "add_point"
    /\ ret.x = R(1) /\ ret.y # None
    /\ DOMAIN l1.data = {R(0), R(1), R(2)}
    /\ Len(l1.losses) = 2
    /\ Len(l1.losses_combined) = 2

(* C25: in Learner1D, after every add_point call, real or pending, the     *)
(* value data_interp holds for each pending x is the piecewise-linear      *)
(* interpolation of the current real data at x, zero with no real data.    *)
C25_PendingValuesInterpolated ==
    (cls = "l1d" /\ Running /\ ret.op = "add_point")
        => \A x \in DOMAIN l1.data_interp :
              l1.data_interp[x] =
                  IF DOMAIN l1.data = {} THEN R(0) ELSE NpInterp(x, l1.data)

(* Some component of the scale is more than 2 times that of the reference  *)
(* scale.                                                                  *)
ScaleBeyondTwice(scale, oldscale) ==
    \E i \in DOMAIN scale : XLt(RMul(R(2), oldscale[i]), scale[i])

(* C26: in Learner1D.add_point with a real value, the recompute of all     *)
(* losses with the reset of _oldscale happens if and only if the scale     *)
(* has grown beyond 2 times the reference scale; a growth by a factor of   *)
(* at most 2 leaves _oldscale unchanged.                                   *)
C26_RecomputeOnlyWhenDoubled ==
    [][(cls = "l1d" /\ ret'.op = "add_point" /\ ret'.y # None)
        => /\ ScaleBeyondTwice(l1'.scale, l1.oldscale)
                => l1'.oldscale = l1'.scale
           /\ ~ScaleBeyondTwice(l1'.scale, l1.oldscale)
                => l1'.oldscale = l1.oldscale]_vars

(* C29: Learner1D.choose_points(n), n >= 1, returns no point that is a     *)
(* key of data or of data_interp before the call, and no point twice.      *)
C29_ProposalsAreNew ==
    [][(cls = "l1d" /\ ret'.op = "choose_points" /\ ~ret'.raised)
        => /\ \A i \in DOMAIN ret'.points : ret'.points[i] \notin L1Keys(l1)
           /\ \A i, j \in DOMAIN ret'.points :
                  i # j => ret'.points[i] # ret'.points[j]]_vars

(* C30: in Learner1D and in Learner2D no point is real and pending at the  *)
(* same time: after any sequence of add_point calls the keys of data and   *)
(* the pending set (data_interp, _interp) are disjoint.                    *)
C30_RealAndPendingDisjoint ==
    /\ (cls = "l1d" /\ Running)
          => DOMAIN l1.data \cap DOMAIN l1.data_interp = {}
    /\ (cls = "l2d" /\ Running)
          => DOMAIN l2.data \cap l2._interp = {}

(* The interpolant ip_combined() would build on the state s now; None      *)
(* where building it raises.                                               *)
FreshIpCombined(s) ==
    LET r == L2_data_combined(s)
    IN  IF r.raised THEN None ELSE LinearNDInterpolator(s, r.data_combined)

(* C27: in Learner2D a cached interpolant is never stale: after any        *)
(* add_point (real or pending) and any remove_unfinished, _ip, when set,   *)
(* is the interpolant of the current real data and _ip_combined, when      *)
(* set, is the interpolant of the current real and pending points with     *)
(* the current values.                                                     *)
C27_CachedInterpolantsCurrent ==
    (cls = "l2d" /\ Running)
        => /\ l2._ip # None => l2._ip = LinearNDInterpolator(l2, l2.data)
           /\ l2._ip_combined # None => l2._ip_combined = FreshIpCombined(l2)

(* The classes of the learners of a list.                                  *)
ClassesOf(learners) == {ClassOf(learners[i]) : i \in DOMAIN learners}

(* C22: constructing a BalancingLearner from learners of more than one     *)
(* class raises TypeError and from learners of one class succeeds, so no   *)
(* BalancingLearner instance holds learners of different classes.          *)
C22_MixedClassesRejected ==
    cls = "bal" =>
        /\ ret.op = "init" => (ret.raised <=> Cardinality(ClassesOf(ret.points)) > 1)
        /\ bal # None => Cardinality(ClassesOf(bal.learners)) <= 1

(* The constructor was called with an AverageLearner and a Learner1D and   *)
(* raised.                                                                 *)
C22_Witness ==
    /\ cls = "bal" /\ ret.op = "init" /\ ret.raised /\ bal = None
    /\ ClassesOf(ret.points) = {"AverageLearner", "Learner1D"}

(* The loss-improvement of the single point a learner proposed in its      *)
(* answer r to choose_points(1, add_data=False): for a Learner1D that      *)
(* split an interval, the loss of that interval over its subdivision       *)
(* count; otherwise the only value the learner returned.                   *)
ProposalImprovement(r) ==
    IF "quals" \in DOMAIN r /\ r.quals # <<>>
    THEN (CHOOSE e \in Range(r.quals) : StrictlyInside(r.points[1], e.x)).q
    ELSE r.loss_improvements[1]

(* The greedy selection: n times, ask every learner for one point without  *)
(* committing it, take the pair of greatest loss-improvement, the lowest   *)
(* index winning ties, and commit it as pending to that learner only.      *)
RECURSIVE GreedySelection(_, _, _)
GreedySelection(s, n, points) ==
    IF n = 0 THEN [state |-> s, points |-> points]
    ELSE LET asked == [i \in DOMAIN s.learners |->
                          Learner_choose_points(s.learners[i], 1, FALSE)]
             index == Bal_max([i \in DOMAIN asked |-> ProposalImprovement(asked[i])])
             x == <<index - 1, asked[index].points[1]>>
         IN  GreedySelection(Bal_add_point(s, x, None), n - 1, Append(points, x))

(* C28: BalancingLearner.choose_points(n) makes n iterations; each commits *)
(* one pending point to one learner and leaves the others unchanged, and   *)
(* the committed (index, point) pair is the one of greatest                *)
(* loss-improvement among the learners' single-point proposals in the      *)
(* state at the start of the iteration, the lowest index winning ties.     *)
C28_GreedyBestPairPerIteration ==
    [][(cls = "bal" /\ ret'.op = "choose_points")
        => /\ ~ret'.raised
           /\ ret'.points = GreedySelection(bal, ret'.n, <<>>).points
           /\ ret'.add_data
                => bal' = GreedySelection(bal, ret'.n, <<>>).state]_vars

(* loss(real=True) of a learner of either class.                           *)
Learner_loss(s) ==
    IF ClassOf(s) = "AverageLearner" THEN Avg_loss(s, TRUE)
    ELSE [kind |-> "num", sq |-> L1_loss(s, TRUE)]

(* C21: a snapshot taken with __getstate__ is never altered by later       *)
(* add_point calls on the learner, and __setstate__ with it brings back    *)
(* the data and the loss the learner had when the snapshot was taken.      *)
C21_SnapshotRoundTrip ==
    cls = "obj" =>
        /\ \A i \in DOMAIN obj.states :
              obj.dicts[obj.states[i].ref] = obj.states[i].taken
        /\ ret.op = "setstate" =>
              /\ obj.dicts[obj.self].data = obj.states[ret.n].taken.data
              /\ Learner_loss(obj.dicts[obj.self])
                    = Learner_loss(obj.states[ret.n].taken)

=============================================================================
